---- MODULE Spec2Model ----
(***************************************************************************)
(* Model of python3/autosync_core.py (vim-autosync): the control thread's  *)
(* event handlers, the pull and commit-and-push worker threads, the        *)
(* in-flight set guarded by _lock, the last-pull timestamp cache and the   *)
(* message queue.                                                          *)
(*                                                                         *)
(* The source file carries two unresolved merge hunks (lines 117-186 and   *)
(* 316-336, "Updated upstream" against "Stashed changes").  Each hunk is   *)
(* resolved to one of its two sides; the side is chosen in Init and never  *)
(* changes (echoHunk, pullHunk).  Each side is translated as Python would  *)
(* run it, so a call that passes silent=/from_thread= to the upstream-side *)
(* _echo_message(message, error) raises TypeError.                         *)
(*                                                                         *)
(* git (GitPython) and vim are collaborators: every call into git either   *)
(* returns or raises, chosen nondeterministically; the working tree is a   *)
(* per-file status that the calls and the user's edits change.             *)
(***************************************************************************)
EXTENDS Integers, Sequences, FiniteSets, TLC

(* ------------------------------ bounds -------------------------------- *)
NumWorkers == 2   \* worker threads started in one behaviour of SpecLedger
Solo == 1         \* worker threads started in one behaviour of SpecSolo
MaxTime == 2      \* the clock runs 1..MaxTime
MaxMsgLen == 2    \* fragments in a GitCommandError message
MaxQueue == 1     \* control-thread messages are not enqueued beyond this

Dirs == {"/r"}
Files == {"a.txt"}
Sides == {"upstream", "stashed"}
Workers == 1..NumWorkers

(* A GitCommandError message is a sequence of fragments; str.lower() acts  *)
(* fragment by fragment and `needle in text` is contiguous containment.    *)
Fragments == {"CONFLICT", "up to date", "fatal"}

Lower(frag) ==
  CASE frag = "CONFLICT" -> "conflict"
    [] OTHER -> frag

LowerMsg(msg) == [k \in 1..Len(msg) |-> Lower(msg[k])]

Contains(needle, text) ==
  \E k \in 0..(Len(text) - Len(needle)) :
    \A j \in 1..Len(needle) : text[k + j] = needle[j]

Messages == UNION {[1..n -> Fragments] : n \in 1..MaxMsgLen}

GitCommandErrors == {[type |-> "GitCommandError", msg |-> m] : m \in Messages}
OtherException == [type |-> "Exception", msg |-> <<>>]
TypeError == [type |-> "TypeError", msg |-> <<>>]
NoExc == [type |-> "none", msg |-> <<>>]
Raisable == GitCommandErrors \cup {OtherException}

VARIABLES
  echoHunk,          \* side taken for lines 117-186 (_echo_message and the drain)
  pullHunk,          \* side taken for lines 316-336 (after a successful pull)
  g_silent,          \* g:autosync_silent
  initialized,       \* _initialized
  repos,             \* _repos: the directories with a cached handle
  last_pull_times,   \* _last_pull_times: dir -> time, -1 when the dir has no entry
  stamp_file,        \* .last_pull_timestamp on disk: a time, -1 missing, -2 unparsable
  active_operations, \* _active_operations
  message_queue,     \* _message_queue
  now,               \* time.time()
  tree,              \* working tree: dir -> file -> status
  workers            \* the worker threads

vars == <<echoHunk, pullHunk, g_silent, initialized, repos,
          last_pull_times, stamp_file, active_operations, message_queue, now,
          tree, workers>>

Statuses == {"clean", "modified", "staged", "untracked"}

IdleWorker ==
  [pc |-> "idle", kind |-> "none", dir |-> "", file |-> "", silent |-> FALSE,
   auto_commit |-> FALSE, calls |-> <<>>, notes |-> <<>>,
   logs |-> <<>>, reloads |-> 0, escaped |-> FALSE, outcome |-> "",
   overlap |-> FALSE]

(* ------------------------- operation keys ----------------------------- *)
PullKey(repo_dir) == "pull:" \o repo_dir
PushKey(repo_dir, rel_filepath) == "push:" \o repo_dir \o ":" \o rel_filepath

(* ------------------------- working tree ------------------------------- *)
\* repo.is_dirty(): index or working tree differs from HEAD; untracked files
\* do not count (GitPython's default untracked_files=False).
IsDirty(repo_dir) ==
  \E f \in Files : tree[repo_dir][f] \in {"modified", "staged"}

IsDirtyPath(repo_dir, rel_filepath) ==
  tree[repo_dir][rel_filepath] \in {"modified", "staged"}

\* git add -A
StageAll(t, repo_dir) ==
  [t EXCEPT ![repo_dir] =
     [f \in Files |-> IF t[repo_dir][f] = "clean" THEN "clean" ELSE "staged"]]

\* repo.index.add([rel_filepath])
StagePath(t, repo_dir, rel_filepath) ==
  [t EXCEPT ![repo_dir][rel_filepath] =
     IF @ = "clean" THEN "clean" ELSE "staged"]

\* repo.index.commit(msg): what is staged becomes HEAD
CommitIndex(t, repo_dir) ==
  [t EXCEPT ![repo_dir] =
     [f \in Files |-> IF t[repo_dir][f] = "staged" THEN "clean" ELSE t[repo_dir][f]]]

(* --------------------------- _echo_message ---------------------------- *)
\* What one call of _echo_message does.  kw: the call passes silent= and
\* from_thread=; silentArg: "none" when silent is not passed, else "on"/"off".
\* upstream side (118-124): def _echo_message(message, error=False).
\* stashed side (154-185): the message is displayed by vim.command, directly
\* or through vim.async_call.
EchoOutcome(side, kw, silentArg, cfgSilent) ==
  IF side = "upstream"
  THEN IF kw THEN "TypeError"
       ELSE IF cfgSilent THEN "suppressed" ELSE "queued"
  ELSE IF silentArg = "none"
       THEN IF cfgSilent THEN "suppressed" ELSE "shown"
       ELSE IF silentArg = "on" THEN "suppressed" ELSE "shown"

SilentArg(b) == IF b THEN "on" ELSE "off"

Note(message, error, arg) == [message |-> message, error |-> error, arg |-> arg]
QueueItem(message, error) == [message |-> message, error |-> error]

\* An execution context: the worker's record, the queue, and the exception
\* in flight (NoExc when none).
Cx(w, q) == [w |-> w, q |-> q, raised |-> NoExc]

\* _echo_message called from a worker with silent=silent, from_thread=True.
EchoFromThread(cx, message, error, arg) ==
  LET out == EchoOutcome(echoHunk, TRUE, SilentArg(cx.w.silent), g_silent) IN
  CASE out = "TypeError" -> [cx EXCEPT !.raised = TypeError]
    [] out = "suppressed" -> cx
    [] out = "queued" ->
         [cx EXCEPT !.w.notes = Append(@, Note(message, error, arg)),
                    !.q = Append(@, QueueItem(message, error))]
    [] out = "shown" ->
         [cx EXCEPT !.w.notes = Append(@, Note(message, error, arg))]

\* _echo_message(message) called from a worker with no keyword (line 318).
EchoPlain(cx, message, error, arg) ==
  LET out == EchoOutcome(echoHunk, FALSE, "none", g_silent) IN
  CASE out = "suppressed" -> cx
    [] out = "queued" ->
         [cx EXCEPT !.w.notes = Append(@, Note(message, error, arg)),
                    !.q = Append(@, QueueItem(message, error))]
    [] out = "shown" ->
         [cx EXCEPT !.w.notes = Append(@, Note(message, error, arg))]

Log(cx, level, what) == [cx EXCEPT !.w.logs = Append(@, <<level, what>>)]
\* One call into git: what was called, with what, and how it came back.
Ret(res) == IF res # NoExc THEN "raised" ELSE "ok"
Call(cx, op, arg, ret) ==
  [cx EXCEPT !.w.calls = Append(@, [op |-> op, arg |-> arg, ret |-> ret])]

(* --------------------------- the ledger ------------------------------- *)
\* operation_key (292, 366)
KeyOf(w) == IF w.kind = "pull" THEN PullKey(w.dir) ELSE PushKey(w.dir, w.file)

\* Mutant of TryAcquire: the membership test is dropped.
TryAcquireNoCheck(key, active) == [ok |-> TRUE, active |-> active \cup {key}]

\* with _lock: if operation_key in _active_operations: return
\*             _active_operations.add(operation_key)       (294-298, 368-372)
TryAcquire(key, active) ==
  IF key \in active
  THEN [ok |-> FALSE, active |-> active]
  ELSE [ok |-> TRUE, active |-> active \cup {key}]

\* Mutant of Discard: the finally block removes nothing.
DiscardNothing(key, active) == active

\* finally: with _lock: _active_operations.discard(operation_key) (351-353, 396-398)
Discard(key, active) == active \ {key}

\* The worker has passed the gate and has not yet run its finally block.
Holding(w) == w.pc \notin {"unused", "idle", "gate", "done"}

\* A thread that has ended keeps what it was, what it called and whether it
\* failed; the rest of its record is observation of a running thread and
\* ends with it.
Finished(w) ==
  [IdleWorker EXCEPT !.pc = "done", !.kind = w.kind, !.dir = w.dir, !.file = w.file,
                     !.outcome = IF w.outcome \in {"pulled", "pushed", "skipped", "nochange"}
                                 THEN w.outcome ELSE "failed",
                     !.calls = w.calls,
                     !.overlap = w.overlap]

\* Mutant of Gate: a worker that is turned away reports it.
GateNoisy(i) ==
  /\ workers[i].pc = "gate"
  /\ LET w == workers[i]
         r == TryAcquire(KeyOf(w), active_operations) IN
     /\ active_operations' = r.active
     /\ workers' = [workers EXCEPT ![i] =
          IF r.ok THEN [w EXCEPT !.pc = "is_dirty"]
          ELSE [w EXCEPT !.pc = "done", !.outcome = "denied",
                         !.logs = Append(@, <<"warning", "already in progress">>)]]
  /\ UNCHANGED <<echoHunk, pullHunk, g_silent, initialized, repos,
                 last_pull_times, stamp_file, message_queue, now, tree>>

Gate(i) ==
  /\ workers[i].pc = "gate"
  /\ LET w == workers[i]
         r == TryAcquire(KeyOf(w), active_operations) IN
     /\ active_operations' = r.active
     /\ workers' = [workers EXCEPT ![i] =
          IF r.ok THEN [w EXCEPT !.pc = "is_dirty"]
          ELSE [w EXCEPT !.pc = "done", !.outcome = "denied"]]
  /\ UNCHANGED <<echoHunk, pullHunk, g_silent, initialized, repos,
                 last_pull_times, stamp_file, message_queue, now, tree>>

Release(i) ==
  /\ workers[i].pc = "release"
  /\ active_operations' = Discard(KeyOf(workers[i]), active_operations)
  /\ workers' = [workers EXCEPT ![i] = Finished(workers[i])]
  /\ UNCHANGED <<echoHunk, pullHunk, g_silent, initialized, repos,
                 last_pull_times, stamp_file, message_queue, now, tree>>

(* --------------------------- _async_pull ------------------------------ *)
\* Mutant of PullExcept: the "up to date" branch tells the user as well.
PullExceptLoud(cx, e) ==
  LET c0 == [cx EXCEPT !.raised = NoExc]
      d == cx.w.dir
      low == LowerMsg(e.msg)
      c1 == IF e.type = "GitCommandError"
            THEN IF Contains(<<"merge", "conflict">>, low) \/ Contains(<<"conflict">>, low)
                 THEN EchoFromThread(
                        [Log(c0, "error", "Merge conflict during pull")
                           EXCEPT !.w.outcome = "conflict"],
                        "Merge conflict. Please resolve manually.", TRUE, d)
                 ELSE IF Contains(<<"up to date">>, low)
                 THEN EchoFromThread(
                        [Log(c0, "debug", "already up to date")
                           EXCEPT !.w.outcome = "uptodate"],
                        "Git pull failed", TRUE, d)
                 ELSE EchoFromThread(
                        [Log(c0, "error", "Git pull failed")
                           EXCEPT !.w.outcome = "pullfail"],
                        "Git pull failed", TRUE, d)
            ELSE EchoFromThread(
                   [Log(c0, "error", "Unexpected error during pull")
                      EXCEPT !.w.outcome = "unexpected"],
                   "Unexpected error during pull", TRUE, d)
  IN [c1 EXCEPT !.w.escaped = (c1.raised # NoExc), !.raised = NoExc,
                !.w.pc = "release"]

\* except GitCommandError / except Exception (337-350).  An exception raised
\* by the handler's own _echo_message call leaves the thread (escaped).
PullExcept(cx, e) ==
  LET c0 == [cx EXCEPT !.raised = NoExc]
      d == cx.w.dir
      low == LowerMsg(e.msg)
      c1 == IF e.type = "GitCommandError"
            THEN IF Contains(<<"merge", "conflict">>, low) \/ Contains(<<"conflict">>, low)
                 THEN EchoFromThread(
                        [Log(c0, "error", "Merge conflict during pull")
                           EXCEPT !.w.outcome = "conflict"],
                        "Merge conflict. Please resolve manually.", TRUE, d)
                 ELSE IF Contains(<<"up to date">>, low)
                 THEN [Log(c0, "debug", "already up to date")
                         EXCEPT !.w.outcome = "uptodate"]
                 ELSE EchoFromThread(
                        [Log(c0, "error", "Git pull failed")
                           EXCEPT !.w.outcome = "pullfail"],
                        "Git pull failed", TRUE, d)
            ELSE EchoFromThread(
                   [Log(c0, "error", "Unexpected error during pull")
                      EXCEPT !.w.outcome = "unexpected"],
                   "Unexpected error during pull", TRUE, d)
  IN [c1 EXCEPT !.w.escaped = (c1.raised # NoExc), !.raised = NoExc,
                !.w.pc = "release"]

\* Run the handler when an exception is in flight, else go on at pc `next`.
PullCatch(cx, next) ==
  IF cx.raised # NoExc THEN PullExcept(cx, cx.raised)
  ELSE [cx EXCEPT !.w.pc = next]

\* except Exception in _commit_all_changes: log and re-raise (278-280)
CommitAllExcept(cx) ==
  IF cx.raised # NoExc THEN Log(cx, "error", "Failed to commit changes") ELSE cx

\* line 302 and the branch on its result (303-310)
PullIsDirtyStep(cx, res) ==
  LET c0 == Call(cx, "is_dirty", cx.w.dir,
                 IF res # NoExc THEN "raised"
                 ELSE IF IsDirty(cx.w.dir) THEN "dirty" ELSE "clean") IN
  IF res # NoExc THEN PullExcept(c0, res)
  ELSE IF IsDirty(cx.w.dir)
  THEN IF cx.w.auto_commit
       THEN [c0 EXCEPT !.w.pc = "add_all"]
       ELSE LET c1 == IF ~cx.w.silent
                      THEN EchoFromThread(c0, "Skipping pull - uncommitted changes present",
                                          TRUE, cx.w.dir)
                      ELSE c0
            IN PullCatch([c1 EXCEPT !.w.outcome = "skipped"], "release")
  ELSE [c0 EXCEPT !.w.pc = "pull"]

\* repo.git.add(A=True) (267)
PullAddAllStep(cx, res) ==
  LET c0 == Call(cx, "add_all", cx.w.dir, Ret(res)) IN
  IF res # NoExc
  THEN PullExcept(CommitAllExcept([c0 EXCEPT !.raised = res]), res)
  ELSE [c0 EXCEPT !.w.pc = "commit_all"]

\* repo.index.commit(commit_msg) and the message after it (270-276)
PullCommitAllStep(cx, res) ==
  LET c0 == Call(cx, "commit", "Auto-sync: Committing changes before pull", Ret(res)) IN
  IF res # NoExc
  THEN PullExcept(CommitAllExcept([c0 EXCEPT !.raised = res]), res)
  ELSE LET c1 == IF ~cx.w.silent
                 THEN EchoFromThread(c0, "Committed uncommitted changes", FALSE, cx.w.dir)
                 ELSE c0
       IN PullCatch(CommitAllExcept(c1), "pull")

\* lines 316-336 after _update_last_pull_time, on the side pullHunk
PullSuccessHunk(cx) ==
  IF pullHunk = "upstream"
  THEN LET c1 == IF ~g_silent
                 THEN EchoPlain(cx, "Pulled updates", FALSE, cx.w.dir)
                 ELSE cx
       IN [c1 EXCEPT !.q = Append(@, QueueItem("SCHEDULE_RELOAD", FALSE)),
                     !.w.reloads = @ + 1]
  ELSE LET c1 == IF ~cx.w.silent
                 THEN EchoFromThread(cx, "Pulled updates", FALSE, cx.w.dir)
                 ELSE cx
       IN IF c1.raised # NoExc THEN c1
          ELSE [c1 EXCEPT !.w.reloads = @ + 1]

\* repo.remotes.origin.pull() and what follows it (313-336)
PullRemoteStep(cx, res) ==
  LET c0 == Call(cx, "pull", cx.w.dir, Ret(res)) IN
  IF res # NoExc THEN PullExcept(c0, res)
  ELSE PullCatch(PullSuccessHunk([c0 EXCEPT !.w.outcome = "pulled"]), "release")

\* _update_last_pull_time (235-245): the cache always, the file unless the
\* write raises IOError (which is logged).
UpdateCache(times, repo_dir, current_time) == [times EXCEPT ![repo_dir] = current_time]

UpdateFile(file, repo_dir, current_time, written) ==
  IF written THEN [file EXCEPT ![repo_dir] = current_time] ELSE file

LogWrite(cx, written) ==
  IF written THEN cx ELSE Log(cx, "error", "Failed to update last pull time")

Store(i, cx) ==
  /\ workers' = [workers EXCEPT ![i] = cx.w]
  /\ message_queue' = cx.q

AsyncPullIsDirty(i) ==
  /\ workers[i].kind = "pull" /\ workers[i].pc = "is_dirty"
  /\ \E res \in Raisable \cup {NoExc} :
       Store(i, PullIsDirtyStep(Cx(workers[i], message_queue), res))
  /\ UNCHANGED <<echoHunk, pullHunk, g_silent, initialized, repos,
                 last_pull_times, stamp_file, active_operations, now, tree>>

AsyncPullAddAll(i) ==
  /\ workers[i].kind = "pull" /\ workers[i].pc = "add_all"
  /\ \E res \in Raisable \cup {NoExc} :
       /\ Store(i, PullAddAllStep(Cx(workers[i], message_queue), res))
       /\ tree' = IF res = NoExc THEN StageAll(tree, workers[i].dir) ELSE tree
  /\ UNCHANGED <<echoHunk, pullHunk, g_silent, initialized, repos,
                 last_pull_times, stamp_file, active_operations, now>>

AsyncPullCommitAll(i) ==
  /\ workers[i].kind = "pull" /\ workers[i].pc = "commit_all"
  /\ \E res \in Raisable \cup {NoExc} :
       /\ Store(i, PullCommitAllStep(Cx(workers[i], message_queue), res))
       /\ tree' = IF res = NoExc THEN CommitIndex(tree, workers[i].dir) ELSE tree
  /\ UNCHANGED <<echoHunk, pullHunk, g_silent, initialized, repos,
                 last_pull_times, stamp_file, active_operations, now>>

AsyncPullRemote(i) ==
  /\ workers[i].kind = "pull" /\ workers[i].pc = "pull"
  /\ \E res \in Raisable \cup {NoExc}, written \in BOOLEAN :
       LET d == workers[i].dir
           c0 == Cx(workers[i], message_queue)
           c1 == IF res = NoExc THEN LogWrite(c0, written) ELSE c0 IN
       /\ res # NoExc => written
       /\ Store(i, PullRemoteStep(c1, res))
       /\ last_pull_times' =
            IF res = NoExc THEN UpdateCache(last_pull_times, d, now) ELSE last_pull_times
       /\ stamp_file' =
            IF res = NoExc THEN UpdateFile(stamp_file, d, now, written) ELSE stamp_file
  /\ UNCHANGED <<echoHunk, pullHunk, g_silent, initialized, repos,
                 active_operations, now, tree>>

(* ----------------------- _async_commit_and_push ----------------------- *)
\* The push worker never reads the message of what it catches.
PushRaisable == {[type |-> "GitCommandError", msg |-> <<"fatal">>], OtherException}

\* commit_template % rel_filepath: every "%s" slot takes the path
CommitTemplate == <<"Auto-sync: Updated ", "%s">>

Format(template, rel_filepath) ==
  [k \in 1..Len(template) |-> IF template[k] = "%s" THEN rel_filepath ELSE template[k]]

\* except GitCommandError / except Exception (390-395)
PushExcept(cx, e) ==
  LET c0 == [cx EXCEPT !.raised = NoExc]
      f == cx.w.file
      c1 == IF e.type = "GitCommandError"
            THEN EchoFromThread(
                   [Log(c0, "error", "Git commit/push failed")
                      EXCEPT !.w.outcome = "pushfail"],
                   "Git commit/push failed", TRUE, f)
            ELSE EchoFromThread(
                   [Log(c0, "error", "Unexpected error during commit/push")
                      EXCEPT !.w.outcome = "unexpected"],
                   "Unexpected error during commit/push", TRUE, f)
  IN [c1 EXCEPT !.w.escaped = (c1.raised # NoExc), !.raised = NoExc,
                !.w.pc = "release"]

PushCatch(cx, next) ==
  IF cx.raised # NoExc THEN PushExcept(cx, cx.raised)
  ELSE [cx EXCEPT !.w.pc = next]

\* Mutant of PushIsDirtyStep: the result of the check is not looked at.
PushIsDirtyStepAlways(cx, res) ==
  LET c0 == Call(cx, "is_dirty", cx.w.file,
                 IF res # NoExc THEN "raised"
                 ELSE IF IsDirtyPath(cx.w.dir, cx.w.file) THEN "dirty" ELSE "clean") IN
  IF res # NoExc THEN PushExcept(c0, res)
  ELSE [c0 EXCEPT !.w.pc = "add"]

\* repo.is_dirty(path=rel_filepath) (378)
PushIsDirtyStep(cx, res) ==
  LET c0 == Call(cx, "is_dirty", cx.w.file,
                 IF res # NoExc THEN "raised"
                 ELSE IF IsDirtyPath(cx.w.dir, cx.w.file) THEN "dirty" ELSE "clean") IN
  IF res # NoExc THEN PushExcept(c0, res)
  ELSE IF IsDirtyPath(cx.w.dir, cx.w.file)
  THEN [c0 EXCEPT !.w.pc = "add"]
  ELSE [c0 EXCEPT !.w.pc = "release", !.w.outcome = "nochange"]

\* repo.index.add([rel_filepath]) (381)
PushAddStep(cx, res) ==
  LET c0 == Call(cx, "add", cx.w.file, Ret(res)) IN
  IF res # NoExc THEN PushExcept(c0, res)
  ELSE [c0 EXCEPT !.w.pc = "commit"]

\* repo.index.commit(commit_msg) (379, 382)
PushCommitStep(cx, res) ==
  LET c0 == Call(cx, "commit", Format(CommitTemplate, cx.w.file), Ret(res)) IN
  IF res # NoExc THEN PushExcept(c0, res)
  ELSE [c0 EXCEPT !.w.pc = "push"]

\* repo.remotes.origin.push() and the success message (383-387)
PushRemoteStep(cx, res) ==
  LET c0 == Call(cx, "push", cx.w.dir, Ret(res)) IN
  IF res # NoExc THEN PushExcept(c0, res)
  ELSE LET c1 == IF ~cx.w.silent
                 THEN EchoFromThread(c0, "Auto-synced", FALSE, cx.w.file)
                 ELSE c0
       IN PushCatch([c1 EXCEPT !.w.outcome = "pushed"], "release")

AsyncPushIsDirty(i) ==
  /\ workers[i].kind = "push" /\ workers[i].pc = "is_dirty"
  /\ \E res \in PushRaisable \cup {NoExc} :
       Store(i, PushIsDirtyStep(Cx(workers[i], message_queue), res))
  /\ UNCHANGED <<echoHunk, pullHunk, g_silent, initialized, repos,
                 last_pull_times, stamp_file, active_operations, now, tree>>

AsyncPushAdd(i) ==
  /\ workers[i].kind = "push" /\ workers[i].pc = "add"
  /\ \E res \in PushRaisable \cup {NoExc} :
       /\ Store(i, PushAddStep(Cx(workers[i], message_queue), res))
       /\ tree' = IF res = NoExc
                  THEN StagePath(tree, workers[i].dir, workers[i].file) ELSE tree
  /\ UNCHANGED <<echoHunk, pullHunk, g_silent, initialized, repos,
                 last_pull_times, stamp_file, active_operations, now>>

AsyncPushCommit(i) ==
  /\ workers[i].kind = "push" /\ workers[i].pc = "commit"
  /\ \E res \in PushRaisable \cup {NoExc} :
       /\ Store(i, PushCommitStep(Cx(workers[i], message_queue), res))
       /\ tree' = IF res = NoExc THEN CommitIndex(tree, workers[i].dir) ELSE tree
  /\ UNCHANGED <<echoHunk, pullHunk, g_silent, initialized, repos,
                 last_pull_times, stamp_file, active_operations, now>>

AsyncPushRemote(i) ==
  /\ workers[i].kind = "push" /\ workers[i].pc = "push"
  /\ \E res \in PushRaisable \cup {NoExc} :
       Store(i, PushRemoteStep(Cx(workers[i], message_queue), res))
  /\ UNCHANGED <<echoHunk, pullHunk, g_silent, initialized, repos,
                 last_pull_times, stamp_file, active_operations, now, tree>>

(* ------------------------- the control thread ------------------------- *)
NoBuffer == [dir |-> "", file |-> ""]
OutsideBuffer == [dir |-> "/elsewhere", file |-> "x.txt"]
Buffers == {NoBuffer, OutsideBuffer} \cup {[dir |-> d, file |-> f] : d \in Dirs, f \in Files}
Intervals == 0..MaxTime

\* _echo_message(message, error) called on the control thread (no keywords)
CtlEcho(q, message, error) ==
  IF EchoOutcome(echoHunk, FALSE, "none", g_silent) = "queued"
  THEN Append(q, QueueItem(message, error))
  ELSE q

\* Bound: the control thread adds to the queue only up to MaxQueue.
CtlRoom(q) == q = message_queue \/ Len(q) <= MaxQueue

\* _get_repo_for_file (189-211); opens: whether Repo(dir) succeeds on a miss
GetRepoForFile(buf, opens, q) ==
  IF buf.dir \notin Dirs
  THEN [dir |-> "", repos |-> repos, q |-> q]
  ELSE IF buf.dir \in repos
  THEN [dir |-> buf.dir, repos |-> repos, q |-> q]
  ELSE IF opens
  THEN [dir |-> buf.dir, repos |-> repos \cup {buf.dir}, q |-> q]
  ELSE [dir |-> "", repos |-> repos,
        q |-> CtlEcho(q, "Error initializing Git repository", TRUE)]

\* _get_last_pull_time (219-232): the cache after the call
LoadLastPullTime(times, file, repo_dir) ==
  IF times[repo_dir] # -1 THEN times
  ELSE [times EXCEPT ![repo_dir] = IF file[repo_dir] >= 0 THEN file[repo_dir] ELSE 0]

\* Mutant of ShouldPull: the comparison is strict.
ShouldPullStrict(last_pull_time, current_time, pull_interval) ==
  current_time - last_pull_time > pull_interval

\* _should_pull (248-254)
ShouldPull(last_pull_time, current_time, pull_interval) ==
  current_time - last_pull_time >= pull_interval

\* threading.Thread(target=..., args=...).start(): the next unused thread
FreeSlot(ws) == CHOOSE i \in Workers : ws[i].pc = "idle" /\ \A j \in 1..(i - 1) : ws[j].pc # "idle"
HasSlot(ws) == \E i \in Workers : ws[i].pc = "idle"

\* Observation: an earlier thread for the same operation has been started
\* and has not yet come back from its last version-control call.
Overlaps(ws, kind, d, f) ==
  \E j \in Workers :
    /\ ws[j].kind = kind /\ ws[j].dir = d /\ ws[j].file = f
    /\ ws[j].pc \notin {"unused", "idle", "release", "done"}

Spawn(ws, kind, d, f, silent, auto_commit) ==
  [ws EXCEPT ![FreeSlot(ws)] =
     [IdleWorker EXCEPT !.pc = "gate", !.kind = kind, !.dir = d, !.file = f,
                        !.silent = silent, !.auto_commit = auto_commit,
                        !.overlap = Overlaps(ws, kind, d, f)]]

\* initialize() with GitPython importable (40-65)
initialize ==
  /\ ~initialized
  /\ initialized' = TRUE
  /\ UNCHANGED <<echoHunk, pullHunk, g_silent, repos, last_pull_times,
                 stamp_file, active_operations, message_queue, now, tree, workers>>

\* Inputs are drawn only where the handler reads them.
OpenResults(buf) == IF buf.dir \in Dirs \ repos THEN BOOLEAN ELSE {TRUE}
IntervalsRead(r) == IF r.dir = "" THEN {0} ELSE Intervals
FlagRead(reads) == IF reads THEN BOOLEAN ELSE {FALSE}

\* Mutant of ReadPre: the thread is started without asking _should_pull.
ReadPreAlways(buf, opens, pull_interval, auto_commit) ==
  LET r == GetRepoForFile(buf, opens, message_queue)
      times == IF r.dir = "" THEN last_pull_times
               ELSE LoadLastPullTime(last_pull_times, stamp_file, r.dir)
      pulls == r.dir # "" IN
  /\ opens \in OpenResults(buf)
  /\ pull_interval \in IntervalsRead(r)
  /\ auto_commit \in FlagRead(pulls)
  /\ CtlRoom(r.q)
  /\ pulls => HasSlot(workers)
  /\ repos' = r.repos
  /\ message_queue' = r.q
  /\ last_pull_times' = times
  /\ workers' = IF pulls
                THEN Spawn(workers, "pull", r.dir, "", g_silent, auto_commit)
                ELSE workers

\* The body of on_buf_read_pre (406-428) on the values it reads: the buffer
\* name, whether Repo(dir) opens, g:autosync_pull_interval and
\* g:autosync_auto_commit_before_pull.
ReadPre(buf, opens, pull_interval, auto_commit) ==
  LET r == GetRepoForFile(buf, opens, message_queue)
      times == IF r.dir = "" THEN last_pull_times
               ELSE LoadLastPullTime(last_pull_times, stamp_file, r.dir)
      pulls == r.dir # "" /\ ShouldPull(times[r.dir], now, pull_interval) IN
  /\ opens \in OpenResults(buf)
  /\ pull_interval \in IntervalsRead(r)
  /\ auto_commit \in FlagRead(pulls)
  /\ CtlRoom(r.q)
  /\ pulls => HasSlot(workers)
  /\ repos' = r.repos
  /\ message_queue' = r.q
  /\ last_pull_times' = times
  /\ workers' = IF pulls
                THEN Spawn(workers, "pull", r.dir, "", g_silent, auto_commit)
                ELSE workers

\* on_buf_read_pre (401-428)
on_buf_read_pre ==
  /\ initialized
  /\ \E buf \in Buffers, opens \in BOOLEAN, pull_interval \in Intervals,
        auto_commit \in BOOLEAN :
       ReadPre(buf, opens, pull_interval, auto_commit)
  /\ UNCHANGED <<echoHunk, pullHunk, g_silent, initialized, stamp_file,
                 active_operations, now, tree>>

\* on_buf_write_post (431-459)
on_buf_write_post ==
  /\ initialized
  /\ \E buf \in Buffers : \E opens \in OpenResults(buf) :
       LET r == GetRepoForFile(buf, opens, message_queue) IN
       /\ CtlRoom(r.q)
       /\ r.dir # "" => HasSlot(workers)
       /\ repos' = r.repos
       /\ message_queue' = r.q
       /\ workers' = IF r.dir # ""
                     THEN Spawn(workers, "push", r.dir, buf.file, g_silent, FALSE)
                     ELSE workers
  /\ UNCHANGED <<echoHunk, pullHunk, g_silent, initialized,
                 last_pull_times, stamp_file, active_operations, now, tree>>

\* The message a manual command shows, and whether it starts a thread (464-480, 498-516)
ManualEcho(buf, r, starting) ==
  IF ~initialized THEN CtlEcho(message_queue, "Plugin not initialized", TRUE)
  ELSE IF buf = NoBuffer THEN CtlEcho(message_queue, "No file in current buffer", TRUE)
  ELSE IF r.dir = "" THEN CtlEcho(r.q, "File is not in a managed directory", TRUE)
  ELSE CtlEcho(r.q, starting, FALSE)

\* The body of manual_pull (464-489) on the values it reads.
ManualPull(buf, opens, auto_commit) ==
  LET r == GetRepoForFile(buf, opens, message_queue)
      q == ManualEcho(buf, r, "Pulling changes...")
      starts == initialized /\ r.dir # "" IN
  /\ buf \in (IF initialized THEN Buffers ELSE {NoBuffer})
  /\ opens \in (IF initialized THEN OpenResults(buf) ELSE {TRUE})
  /\ auto_commit \in FlagRead(starts)
  /\ CtlRoom(q)
  /\ starts => HasSlot(workers)
  /\ repos' = IF initialized THEN r.repos ELSE repos
  /\ message_queue' = q
  /\ workers' = IF starts
                THEN Spawn(workers, "pull", r.dir, "", g_silent, auto_commit)
                ELSE workers

\* manual_pull (462-493)
manual_pull ==
  /\ \E buf \in Buffers, opens \in BOOLEAN, auto_commit \in BOOLEAN :
       ManualPull(buf, opens, auto_commit)
  /\ UNCHANGED <<echoHunk, pullHunk, g_silent, initialized,
                 last_pull_times, stamp_file, active_operations, now, tree>>

\* manual_push (496-528)
manual_push ==
  \E buf \in (IF initialized THEN Buffers ELSE {NoBuffer}) :
    \E opens \in (IF initialized THEN OpenResults(buf) ELSE {TRUE}) :
      LET r == GetRepoForFile(buf, opens, message_queue)
          q == ManualEcho(buf, r, "Committing and pushing...")
          starts == initialized /\ r.dir # "" IN
      /\ CtlRoom(q)
      /\ starts => HasSlot(workers)
      /\ repos' = IF initialized THEN r.repos ELSE repos
      /\ message_queue' = q
      /\ workers' = IF starts
                    THEN Spawn(workers, "push", r.dir, buf.file, g_silent, FALSE)
                    ELSE workers
      /\ UNCHANGED <<echoHunk, pullHunk, g_silent, initialized,
                     last_pull_times, stamp_file, active_operations, now, tree>>

\* process_queued_messages (127-146), present on the upstream side only.
\* failAt = 0: no vim.command fails; failAt = j: the j-th one raises, and the
\* bare except leaves the loop with that message already dequeued.
MaxBatch == 10

\* One call of process_queued_messages on queue q in which the failAt-th
\* vim.command raises (none when failAt = 0): how many messages the loop
\* takes off the queue, and for how many of them vim.command returned.
DrainTaken(q, failAt) ==
  IF failAt # 0 THEN failAt
  ELSE IF Len(q) < MaxBatch THEN Len(q) ELSE MaxBatch

DrainShown(q, failAt) ==
  IF failAt # 0 THEN failAt - 1 ELSE DrainTaken(q, failAt)

Drain(failAt) ==
  /\ echoHunk = "upstream"
  /\ message_queue # <<>>
  /\ failAt <= Len(message_queue)
  /\ message_queue' = SubSeq(message_queue, DrainTaken(message_queue, failAt) + 1,
                             Len(message_queue))

process_queued_messages ==
  /\ \E failAt \in 0..MaxBatch : Drain(failAt)
  /\ UNCHANGED <<echoHunk, pullHunk, g_silent, initialized, repos,
                 last_pull_times, stamp_file, active_operations, now, tree, workers>>

(* --------------------------- the environment -------------------------- *)
\* :let g:autosync_silent = ...
SetSilent ==
  /\ g_silent' = ~g_silent
  /\ UNCHANGED <<echoHunk, pullHunk, initialized, repos, last_pull_times, stamp_file,
                 active_operations, message_queue, now, tree, workers>>

Tick ==
  /\ now < MaxTime
  /\ now' = now + 1
  /\ UNCHANGED <<echoHunk, pullHunk, g_silent, initialized, repos,
                 last_pull_times, stamp_file, active_operations, message_queue, tree,
                 workers>>

\* The buffer is written (or the file changes on disk): a tracked file
\* becomes modified, an untracked one stays untracked.
WriteFile ==
  /\ \E d \in Dirs, f \in Files :
       /\ tree[d][f] \in {"clean", "staged"}
       /\ tree' = [tree EXCEPT ![d][f] = "modified"]
  /\ UNCHANGED <<echoHunk, pullHunk, g_silent, initialized, repos,
                 last_pull_times, stamp_file, active_operations, message_queue, now,
                 workers>>

(* --------------------------- specification ---------------------------- *)
\* The state after the module is loaded; k threads may be started.
InitN(k) ==
  /\ echoHunk \in Sides
  /\ pullHunk \in Sides
  /\ g_silent \in BOOLEAN
  /\ initialized = FALSE
  /\ repos = {}
  /\ last_pull_times = [d \in Dirs |-> -1]
  /\ stamp_file \in [Dirs -> {-1, 1}]
  /\ active_operations = {}
  /\ message_queue = <<>>
  /\ now = 1
  /\ tree \in [Dirs -> [Files -> {"clean", "untracked"}]]
  /\ workers = [i \in Workers |-> IF i <= k THEN IdleWorker
                                  ELSE [IdleWorker EXCEPT !.pc = "unused"]]

Init == InitN(NumWorkers)
InitSolo == InitN(Solo)

WorkerStep ==
  \/ \E i \in Workers : Gate(i)
  \/ \E i \in Workers : AsyncPullIsDirty(i)
  \/ \E i \in Workers : AsyncPullAddAll(i)
  \/ \E i \in Workers : AsyncPullCommitAll(i)
  \/ \E i \in Workers : AsyncPullRemote(i)
  \/ \E i \in Workers : AsyncPushIsDirty(i)
  \/ \E i \in Workers : AsyncPushAdd(i)
  \/ \E i \in Workers : AsyncPushCommit(i)
  \/ \E i \in Workers : AsyncPushRemote(i)
  \/ \E i \in Workers : Release(i)

\* The control thread's handlers that start threads, the edits of the
\* working tree, and the threads.
NextLedger ==
  \/ initialize
  \/ on_buf_read_pre
  \/ on_buf_write_post
  \/ manual_pull
  \/ manual_push
  \/ WriteFile
  \/ WorkerStep

Next ==
  \/ NextLedger
  \/ process_queued_messages
  \/ SetSilent
  \/ Tick

\* The whole program.
Spec == Init /\ [][Next]_vars

\* The whole program with Solo threads: what one worker does from start to end.
SpecSolo == InitSolo /\ [][Next]_vars

\* NumWorkers threads racing for the ledger, with the clock, the silent flag
\* and the queue's consumer left out: none of them is read or written by the
\* gate, the version-control calls or the release.
SpecLedger == Init /\ [][NextLedger]_vars

\* One thread's next statement, and the scheduler's promise to each thread:
\* a version-control call returns or raises, and a thread that can run
\* does run.
ThreadStep(i) ==
  \/ Gate(i)
  \/ AsyncPullIsDirty(i) \/ AsyncPullAddAll(i) \/ AsyncPullCommitAll(i)
  \/ AsyncPullRemote(i)
  \/ AsyncPushIsDirty(i) \/ AsyncPushAdd(i) \/ AsyncPushCommit(i)
  \/ AsyncPushRemote(i)
  \/ Release(i)

FairThreads == \A i \in Workers : WF_vars(ThreadStep(i))

\* No new events arrive: NumWorkers threads have been started by the
\* handlers, on any targets and with any flags, and only the threads run.
Targets ==
  {[kind |-> "pull", dir |-> d, file |-> ""] : d \in Dirs}
    \cup {[kind |-> "push", dir |-> d, file |-> f] : d \in Dirs, f \in Files}

RECURSIVE StartAll(_, _, _)
StartAll(ws, t, k) ==
  IF k > NumWorkers THEN ws
  ELSE StartAll(Spawn(ws, t[k].kind, t[k].dir, t[k].file, t[k].silent, t[k].auto_commit),
                t, k + 1)

InitStarted ==
  /\ echoHunk \in Sides
  /\ pullHunk \in Sides
  /\ g_silent \in BOOLEAN
  /\ initialized = TRUE
  /\ repos = Dirs
  /\ last_pull_times = [d \in Dirs |-> 0]
  /\ stamp_file = [d \in Dirs |-> -1]
  /\ active_operations = {}
  /\ message_queue = <<>>
  /\ now = 1
  /\ tree \in [Dirs -> [Files -> Statuses]]
  /\ \E t \in [Workers -> Targets], silent \in BOOLEAN, auto_commit \in BOOLEAN :
       workers = StartAll([i \in Workers |-> IdleWorker],
                          [i \in Workers |->
                             [kind |-> t[i].kind, dir |-> t[i].dir, file |-> t[i].file,
                              silent |-> silent,
                              auto_commit |-> auto_commit /\ t[i].kind = "pull"]],
                          1)

SpecStartedFair == InitStarted /\ [][WorkerStep]_vars /\ FairThreads

\* Operation keys on their own: two threads have just been started on
\* targets whose names may hold the separator of the key, under managed
\* directories KeyDirs, and each takes the gate.
KeyDirs == {"/r", "/r:a"}
KeyFiles == {"b", "a:b"}
KeyTargets ==
  {[kind |-> "pull", dir |-> d, file |-> ""] : d \in KeyDirs}
    \cup {[kind |-> "push", dir |-> d, file |-> f] : d \in KeyDirs, f \in KeyFiles}

InitKeys ==
  /\ echoHunk \in Sides
  /\ pullHunk \in Sides
  /\ g_silent = FALSE
  /\ initialized = TRUE
  /\ repos = {}
  /\ last_pull_times = [d \in Dirs |-> -1]
  /\ stamp_file = [d \in Dirs |-> -1]
  /\ active_operations = {}
  /\ message_queue = <<>>
  /\ now = 1
  /\ tree = [d \in Dirs |-> [f \in Files |-> "clean"]]
  /\ workers \in {[i \in Workers |->
                     [IdleWorker EXCEPT !.pc = "gate", !.kind = t[i].kind,
                                        !.dir = t[i].dir, !.file = t[i].file]] :
                  t \in [Workers -> KeyTargets]}

NextKeys == \E i \in Workers : Gate(i)

SpecKeys == InitKeys /\ [][NextKeys]_vars

(* ------------------------------ claims -------------------------------- *)
Active(w) == w.pc \notin {"unused", "idle"}
CountCalls(w, op) == Cardinality({k \in 1..Len(w.calls) : w.calls[k].op = op})

\* C1: for every operation key, at most one worker has passed the gate for
\* it and not yet released it, in every reachable state.
C1_AtMostOneHolder ==
  \A i \in Workers, j \in Workers :
    (i # j /\ Holding(workers[i]) /\ Holding(workers[j]))
      => KeyOf(workers[i]) # KeyOf(workers[j])

\* C1 witness: one worker holds a key for which another was turned away.
C1_Witness ==
  \E i \in Workers, j \in Workers :
    /\ i # j
    /\ Holding(workers[i])
    /\ workers[j].outcome = "denied"
    /\ KeyOf(workers[i]) = KeyOf(workers[j])

\* C2: a key is in the in-flight set exactly when a worker that acquired it
\* has not yet run its finally block; so once a worker has ended, on any exit
\* path, its key is absent unless another worker holds it.
C2_KeyIffHeld ==
  active_operations = {KeyOf(workers[i]) : i \in {j \in Workers : Holding(workers[j])}}

\* C2 witness: a worker that passed the gate and then failed has ended, and
\* its key is gone.
C2_Witness ==
  \E i \in Workers :
    /\ workers[i].pc = "done"
    /\ workers[i].outcome = "failed"
    /\ KeyOf(workers[i]) \notin active_operations

\* C3: a worker whose key is already in the in-flight set ends at the gate:
\* it has made no version-control call, emitted no notification and logged
\* nothing, the in-flight set, the timestamps and the queue are as they were,
\* and the worker never runs again.
C3_DeniedIsSilent ==
  [][\A i \in Workers :
       /\ (/\ workers[i].pc = "gate"
           /\ workers'[i].pc # "gate"
           /\ KeyOf(workers[i]) \in active_operations)
            => /\ workers'[i].pc = "done"
               /\ workers'[i].outcome = "denied"
               /\ workers'[i].calls = <<>>
               /\ workers'[i].notes = <<>>
               /\ workers'[i].logs = <<>>
               /\ workers'[i].reloads = 0
               /\ active_operations' = active_operations
               /\ last_pull_times' = last_pull_times
               /\ stamp_file' = stamp_file
               /\ message_queue' = message_queue
               /\ tree' = tree
       /\ workers[i].outcome = "denied" => workers'[i] = workers[i]
    ]_vars

\* C3 witness: a worker has been turned away at the gate.
C3_Witness ==
  \E i \in Workers :
    /\ workers[i].pc = "done"
    /\ workers[i].outcome = "denied"
    /\ KeyOf(workers[i]) \in active_operations

SameFile(v, w) ==
  /\ v.kind = "push" /\ w.kind = "push"
  /\ v.dir = w.dir /\ v.file = w.file

\* C4 as stated: when a second save of the same file fires before the first
\* save's push has come back, the second worker is turned away at the gate
\* and the two workers make exactly one commit and one push between them.
C4_SecondSaveAlwaysDenied ==
  \A i \in Workers, j \in Workers :
    (/\ i < j
     /\ SameFile(workers[i], workers[j])
     /\ workers[j].overlap
     /\ workers[i].pc = "done" /\ workers[j].pc = "done"
     /\ workers[i].outcome = "pushed")
      => /\ workers[j].outcome = "denied"
         /\ CountCalls(workers[i], "commit") + CountCalls(workers[j], "commit") = 1
         /\ CountCalls(workers[i], "push") + CountCalls(workers[j], "push") = 1

\* C4 amended: a second worker for the same file that reaches the gate while
\* the first holds the key is turned away; a worker that was turned away adds
\* no commit and no push to the other's, so the two make at most one commit
\* and one push, and exactly one of each when the first worker's push returned.
C4_DeniedWhileHeld ==
  [][\A i \in Workers, j \in Workers :
       (i # j /\ SameFile(workers[i], workers[j])) =>
         /\ (/\ workers[j].pc = "gate"
             /\ workers'[j].pc # "gate"
             /\ Holding(workers[i]))
              => workers'[j].outcome = "denied"
         /\ workers[j].outcome = "denied" =>
              /\ CountCalls(workers[i], "commit") + CountCalls(workers[j], "commit") <= 1
              /\ CountCalls(workers[i], "push") + CountCalls(workers[j], "push") <= 1
         /\ (/\ workers[j].outcome = "denied"
             /\ workers[i].pc = "release"
             /\ workers[i].outcome = "pushed")
              => /\ CountCalls(workers[i], "commit") + CountCalls(workers[j], "commit") = 1
                 /\ CountCalls(workers[i], "push") + CountCalls(workers[j], "push") = 1
    ]_vars

\* C4 witness: the second save's worker was turned away while the first
\* save's worker committed and pushed.
C4_Witness ==
  \E i \in Workers, j \in Workers :
    /\ i < j
    /\ SameFile(workers[i], workers[j])
    /\ workers[j].overlap
    /\ workers[j].outcome = "denied"
    /\ workers[i].pc = "release"
    /\ workers[i].outcome = "pushed"

\* What a pull worker observes of one run of the body of _async_pull.
Ops(w) == [k \in 1..Len(w.calls) |-> w.calls[k].op]
NoRaise(w) == \A k \in 1..Len(w.calls) : w.calls[k].ret # "raised"
LastCall(w) == w.calls[Len(w.calls)]
ErrorNotes(w) == {k \in 1..Len(w.notes) : w.notes[k].error}
StampsUnchanged == last_pull_times' = last_pull_times /\ stamp_file' = stamp_file

\* C5: a pull that passes the gate on a dirty tree with auto-commit off
\* makes no commit and no remote pull, emits exactly one notification and
\* that notification is not error-styled, leaves the last-pull timestamp
\* alone and goes on to release its key.  Stated for silent mode off and for
\* the side of _echo_message that accepts the call of line 309.
C5_SkipIsInformational ==
  [][\A i \in Workers :
       LET w == workers[i]
           v == workers'[i] IN
       (/\ w.kind = "pull" /\ w.pc = "is_dirty" /\ v.pc # "is_dirty"
        /\ ~w.auto_commit /\ ~w.silent /\ ~g_silent
        /\ echoHunk = "stashed"
        /\ LastCall(v).ret = "dirty")
       => /\ v.pc = "release"
          /\ CountCalls(v, "commit") = 0
          /\ CountCalls(v, "pull") = 0
          /\ Len(v.notes) = 1
          /\ ErrorNotes(v) = {}
          /\ StampsUnchanged]_vars

\* C6: the body of a pull in which no git call raises performs, on a dirty
\* tree with auto-commit on, exactly stage-all, commit with the fixed
\* message, remote pull, in that order; on a clean tree exactly a remote
\* pull and no commit.
C6_CommitThenPull ==
  \A i \in Workers :
    LET w == workers[i] IN
    (w.kind = "pull" /\ w.pc = "release" /\ NoRaise(w) /\ w.calls # <<>>)
    => /\ (w.calls[1].ret = "dirty" /\ w.auto_commit)
            => /\ Ops(w) = <<"is_dirty", "add_all", "commit", "pull">>
               /\ w.calls[3].arg = "Auto-sync: Committing changes before pull"
       /\ w.calls[1].ret = "clean" => Ops(w) = <<"is_dirty", "pull">>

\* C7: when stage-all or the commit before a pull raises, the task goes to
\* its release without ever calling the remote pull, the last-pull
\* timestamp is unchanged, and an error notification has been emitted.
\* Stated for silent mode off and for the side of _echo_message that
\* accepts the calls of lines 341-350.
C7_PreflightFailureSurfaced ==
  [][\A i \in Workers :
       LET w == workers[i]
           v == workers'[i] IN
       (/\ w.kind = "pull" /\ w.pc \in {"add_all", "commit_all"} /\ v.pc # w.pc
        /\ ~w.silent /\ ~g_silent
        /\ echoHunk = "stashed"
        /\ LastCall(v).ret = "raised")
       => /\ v.pc = "release"
          /\ CountCalls(v, "pull") = 0
          /\ StampsUnchanged
          /\ ErrorNotes(v) # {}]_vars

\* What _get_last_pull_time (219-232) returns for repo_dir in this state.
LastPullTime(times, file, repo_dir) == LoadLastPullTime(times, file, repo_dir)[repo_dir]

\* C8: the step in which the remote pull returns sets the directory's
\* last-pull timestamp to the current time, adds exactly one success
\* notification when silent mode is off and none when it is on, and hands
\* over exactly one reload signal either way; no other step of the program
\* changes any directory's last-pull timestamp.
C8_SuccessfulPull ==
  [][\A i \in Workers :
       LET w == workers[i]
           v == workers'[i] IN
       IF w.kind = "pull" /\ w.pc = "pull" /\ v.pc # "pull" /\ LastCall(v).ret = "ok"
       THEN /\ LastPullTime(last_pull_times', stamp_file', w.dir) = now
            /\ (~w.silent /\ ~g_silent)
                 => /\ Len(v.notes) = Len(w.notes) + 1
                    /\ v.notes[Len(v.notes)] = Note("Pulled updates", FALSE, w.dir)
            /\ (w.silent /\ g_silent) => v.notes = w.notes
            /\ v.reloads = w.reloads + 1
       ELSE (v # w) =>
              \A d \in Dirs : LastPullTime(last_pull_times', stamp_file', d)
                                = LastPullTime(last_pull_times, stamp_file, d)]_vars

\* The failures of the remote pull whose text contains "conflict" in some case.
ConflictErrors == {e \in GitCommandErrors : Contains(<<"conflict">>, LowerMsg(e.msg))}

\* C9: in every state where a worker is about to call the remote pull, a
\* failure whose message contains "conflict" in any case, "up to date" or
\* not beside it, ends the task classified as a conflict with the
\* manual-resolution error emitted as its one new notification, without
\* the generic pull-failure error, without the up-to-date log line, and
\* with the remote pull called once.
C9_ConflictSurfaced ==
  \A i \in Workers :
    LET w == workers[i] IN
    (w.kind = "pull" /\ w.pc = "pull")
    => \A e \in ConflictErrors :
         LET r == PullRemoteStep(Cx(w, message_queue), e).w IN
         /\ r.pc = "release"
         /\ r.outcome = "conflict"
         /\ r.notes = Append(w.notes,
                             Note("Merge conflict. Please resolve manually.", TRUE, w.dir))
         /\ r.logs = Append(w.logs, <<"error", "Merge conflict during pull">>)
         /\ CountCalls(r, "pull") = 1

\* C10: the step in which a remote pull failure is classified as already
\* up to date adds no notification and no queue item, adds exactly the one
\* debug log line, lets nothing escape the thread, and is followed by the
\* release of the key.
C10_UpToDateIsQuiet ==
  [][\A i \in Workers :
       LET w == workers[i]
           v == workers'[i] IN
       /\ (w.kind = "pull" /\ w.pc = "pull" /\ v.pc # "pull" /\ v.outcome = "uptodate")
            => /\ v.pc = "release"
               /\ v.notes = w.notes
               /\ message_queue' = message_queue
               /\ v.logs = Append(w.logs, <<"debug", "already up to date">>)
               /\ v.reloads = w.reloads
               /\ ~v.escaped
               /\ KeyOf(v) \in active_operations'
       /\ (w.kind = "pull" /\ w.pc = "release" /\ w.outcome = "uptodate" /\ v # w)
            => /\ v.pc = "done"
               /\ KeyOf(w) \notin active_operations']_vars

\* A remote pull has just failed as already up to date with silent mode off.
C10_Witness ==
  \E i \in Workers :
    LET w == workers[i] IN
    /\ w.kind = "pull" /\ w.pc = "release" /\ w.outcome = "uptodate"
    /\ LastCall(w).op = "pull" /\ LastCall(w).ret = "raised"
    /\ ~w.silent /\ ~g_silent
    /\ w.notes = <<>>

\* C11: the push worker whose file is neither modified nor untracked goes
\* from its check straight to the release with no stage, commit or push
\* call, no notification and no queue item, and the release removes its key.
C11_CleanFilePushesNothing ==
  [][\A i \in Workers :
       LET w == workers[i]
           v == workers'[i] IN
       /\ (/\ w.kind = "push" /\ w.pc = "is_dirty" /\ v.pc # "is_dirty"
           /\ tree[w.dir][w.file] = "clean"
           /\ LastCall(v).ret # "raised")
            => /\ v.pc = "release"
               /\ Ops(v) = <<"is_dirty">>
               /\ v.notes = <<>>
               /\ message_queue' = message_queue
               /\ tree' = tree
               /\ KeyOf(v) \in active_operations'
       /\ (w.kind = "push" /\ w.pc = "release" /\ w.outcome = "nochange" /\ v # w)
            => /\ v.pc = "done"
               /\ KeyOf(w) \notin active_operations']_vars

\* A push worker has found its file clean and ended without a call.
C11_Witness ==
  \E i \in Workers :
    LET w == workers[i] IN
    /\ w.kind = "push" /\ w.pc = "done" /\ w.outcome = "nochange"
    /\ tree[w.dir][w.file] = "clean"
    /\ Ops(w) = <<"is_dirty">>
    /\ KeyOf(w) \notin active_operations

\* C12: the check of the push worker admits a file that is modified and
\* tracked and a file that is untracked alike: when the check returns,
\* the worker goes on to stage the file.
C12_UntrackedIsAdmitted ==
  [][\A i \in Workers :
       LET w == workers[i]
           v == workers'[i] IN
       (/\ w.kind = "push" /\ w.pc = "is_dirty" /\ v.pc # "is_dirty"
        /\ tree[w.dir][w.file] \in {"modified", "untracked"}
        /\ LastCall(v).ret # "raised")
       => v.pc = "add"]_vars

\* C13: with silent mode off, the push worker of a dirty file calls stage
\* of that file, commit with the template applied to the path, and remote
\* push, in that order and each at most once; when all three returned it
\* has emitted exactly the success notification naming the file, and when
\* one of them raised it has emitted exactly one error notification and no
\* success notification.
C13_PushOrderAndNotice ==
  \A i \in Workers :
    LET w == workers[i] IN
    (/\ w.kind = "push" /\ w.pc = "release" /\ ~w.silent /\ ~g_silent
     /\ w.calls # <<>> /\ w.calls[1].ret = "dirty")
    => /\ \E n \in 1..4 : Ops(w) = SubSeq(<<"is_dirty", "add", "commit", "push">>, 1, n)
       /\ \A k \in 1..Len(w.calls) :
            /\ w.calls[k].op = "add" => w.calls[k].arg = w.file
            /\ w.calls[k].op = "commit"
                 => w.calls[k].arg = <<"Auto-sync: Updated ", w.file>>
       /\ NoRaise(w) => /\ Len(w.calls) = 4
                        /\ w.notes = <<Note("Auto-synced", FALSE, w.file)>>
       /\ ~NoRaise(w) => /\ Len(w.notes) = 1
                         /\ w.notes[1].error
                         /\ LastCall(w).ret = "raised"

\* C14 as stated: for every directory and every pull interval, _should_pull
\* is false while the recorded last-pull time is the current time, is true
\* once the time since it is at least the interval, and a directory with no
\* cached time and no readable timestamp file counts as pulled at time 0.
C14_ShouldPullEveryInterval ==
  \A d \in Dirs : \A pull_interval \in Intervals :
    LET last == LastPullTime(last_pull_times, stamp_file, d) IN
    /\ last_pull_times[d] = now => ~ShouldPull(last, now, pull_interval)
    /\ now - last >= pull_interval => ShouldPull(last, now, pull_interval)
    /\ (last_pull_times[d] = -1 /\ stamp_file[d] < 0) => last = 0

\* C14 amended: the same for every pull interval of at least 1.
C14_ShouldPullPositiveInterval ==
  \A d \in Dirs : \A pull_interval \in Intervals \ {0} :
    LET last == LastPullTime(last_pull_times, stamp_file, d) IN
    /\ last_pull_times[d] = now => ~ShouldPull(last, now, pull_interval)
    /\ now - last >= pull_interval => ShouldPull(last, now, pull_interval)
    /\ (last_pull_times[d] = -1 /\ stamp_file[d] < 0)
         => /\ last = 0
            /\ ShouldPull(last, now, pull_interval) <=> now >= pull_interval

\* A pull has just recorded the current time for its directory.
C14_Witness ==
  \E i \in Workers :
    LET w == workers[i] IN
    /\ w.kind = "pull" /\ w.pc = "release" /\ LastCall(w).op = "pull"
    /\ LastCall(w).ret = "ok"
    /\ last_pull_times[w.dir] = now
    /\ now = MaxTime

\* This step starts a pull thread for directory d, at its gate.
StartsPull(d) ==
  \E i \in Workers :
    /\ workers[i].pc = "idle"
    /\ workers'[i].pc = "gate" /\ workers'[i].kind = "pull" /\ workers'[i].dir = d

\* C15: a before-read event that read pull interval n starts a pull thread
\* only if _should_pull holds for the buffer's directory with n, and starts
\* none otherwise; a manual pull on a buffer of a managed directory starts
\* one whatever the time since the last pull; either way the handler leaves
\* the in-flight set alone and the new thread stands before the gate.
C15_ReadPreAsksManualDoesNot ==
  [][/\ \A buf \in Buffers, opens \in BOOLEAN, n \in Intervals, ac \in BOOLEAN :
          (initialized /\ ReadPre(buf, opens, n, ac))
          => /\ (\E d \in Dirs : StartsPull(d))
                  <=> /\ buf.dir \in repos'
                      /\ ShouldPull(LastPullTime(last_pull_times, stamp_file, buf.dir),
                                    now, n)
             /\ \A d \in Dirs : StartsPull(d) => d = buf.dir
     /\ \A buf \in Buffers, opens \in BOOLEAN, ac \in BOOLEAN :
          (initialized /\ ManualPull(buf, opens, ac))
          => (buf.dir \in repos' <=> StartsPull(buf.dir))
     /\ \A d \in Dirs :
          StartsPull(d) => active_operations' = active_operations]_vars

\* A pull thread stands before the gate although the recorded last pull
\* is not older than the current time.
C15_Witness ==
  \E i \in Workers :
    LET w == workers[i] IN
    /\ w.kind = "pull" /\ w.pc = "gate"
    /\ last_pull_times[w.dir] = now

\* C16: every call of the drain takes at most the batch limit of messages
\* off the front of the queue, leaves the rest queued in order, and every
\* message it took off was displayed or turned into the reload call.
C16_DrainLosesNothing ==
  [][\A failAt \in 0..MaxBatch :
       Drain(failAt)
       => /\ DrainTaken(message_queue, failAt) <= MaxBatch
          /\ message_queue' = SubSeq(message_queue,
                                     DrainTaken(message_queue, failAt) + 1,
                                     Len(message_queue))
          /\ DrainShown(message_queue, failAt)
               = Len(message_queue) - Len(message_queue')]_vars

\* The steps that run inside a `with _lock` block (294-298, 351-353,
\* 368-372, 396-398).
UnderLock == \E i \in Workers : Gate(i) \/ Release(i)

\* C17: every step that changes the repository cache, the last-pull cache
\* or the in-flight set runs inside a `with _lock` block, and no step
\* inside `with _lock` is a version-control or file call.
C17_MutationsUnderLock ==
  [][/\ (\/ repos' # repos
         \/ last_pull_times' # last_pull_times
         \/ active_operations' # active_operations) => UnderLock
     /\ UnderLock => /\ tree' = tree /\ stamp_file' = stamp_file
                     /\ \A i \in Workers : workers'[i].calls = workers[i].calls]_vars

\* C18: a worker in which a version-control call raised, other than a
\* failure filed as already up to date, reaches its release with exactly
\* one error notification emitted and a log entry written, silent mode on
\* or off, and no worker ever lets an exception out of its thread.
C18_FailuresCaughtAndSurfaced ==
  \A i \in Workers :
    LET w == workers[i] IN
    /\ ~w.escaped
    /\ (/\ w.pc = "release" /\ w.calls # <<>> /\ LastCall(w).ret = "raised"
        /\ w.outcome # "uptodate")
         => /\ Cardinality(ErrorNotes(w)) = 1
            /\ \E k \in 1..Len(w.logs) : w.logs[k][1] = "error"

\* C19: the keys of two operations are equal exactly when their kind,
\* directory and file are equal, names holding ':' included, so a thread is
\* turned away at the gate only while a thread with the same kind,
\* directory and file holds the key.
C19_KeysStructural ==
  \A i \in Workers : \A j \in Workers :
    LET v == workers[i]
        w == workers[j] IN
    (Active(v) /\ Active(w))
    => /\ KeyOf(v) = KeyOf(w)
            <=> (v.kind = w.kind /\ v.dir = w.dir /\ v.file = w.file)
       /\ (i # j /\ w.outcome = "denied" /\ Holding(v))
            => (v.kind = w.kind /\ v.dir = w.dir /\ v.file = w.file)

\* C20: under fair scheduling of the threads, every thread that holds a
\* key comes to the end of its finally block, and the in-flight set is
\* eventually empty for good.
C20_KeysEventuallyReleased ==
  /\ \A i \in Workers : Holding(workers[i]) ~> (workers[i].pc = "done")
  /\ <>[](active_operations = {})

\* A thread that held a key through a remote pull has ended and the
\* in-flight set is empty.
C20_Witness ==
  \E i \in Workers :
    LET w == workers[i] IN
    /\ w.pc = "done" /\ w.kind = "pull" /\ CountCalls(w, "pull") = 1
    /\ active_operations = {}
====
